---- MODULE Spec2Model ----
(***************************************************************************)
(* Model of twitter_bot.py: the TwitterBot rotation cursor, the content    *)
(* source tweets.json, the cursor file current_index.txt, one posting      *)
(* cycle (post_next_tweet) and the scheduler loop of main.                 *)
(*                                                                         *)
(* A text file is a sequence of one-character strings.  A loaded JSON      *)
(* value is a record [kind, items]: kind "list" for a JSON array, "str"    *)
(* for a JSON string (items are then its characters).  An array element    *)
(* that is not a JSON string is the marker NonString (a JSON number).      *)
(***************************************************************************)
EXTENDS Integers, Sequences, FiniteSets, TLC

\* ------------------------------------------------------------- bounds
\* Longest JSON array of the content source.
MaxLen == 2

\* ---------------------------------------------------- program constants
\* self.tweet_interval (hours).
TweetInterval == 8
\* load_tweets prints (and so touches) only the first three elements.
PreviewLen == 3

\* -------------------------------------------------------------- text
DigitChars == <<"0", "1", "2", "3", "4", "5", "6", "7", "8", "9">>

Whitespace == {" ", "\n"}

RECURSIVE Digits(_)
\* The decimal digits of n >= 0.
Digits(n) ==
    IF n < 10 THEN <<DigitChars[n + 1]>>
    ELSE Digits(n \div 10) \o <<DigitChars[(n % 10) + 1]>>

\* Python str(i) for an int.
StrOfInt(i) == IF i < 0 THEN <<"-">> \o Digits(0 - i) ELSE Digits(i)

RECURSIVE LStrip(_)
LStrip(s) ==
    IF s # <<>> /\ Head(s) \in Whitespace THEN LStrip(Tail(s)) ELSE s

RECURSIVE RStrip(_)
RStrip(s) ==
    IF s # <<>> /\ s[Len(s)] \in Whitespace
    THEN RStrip(SubSeq(s, 1, Len(s) - 1)) ELSE s

\* Python str.strip().
Strip(s) == RStrip(LStrip(s))

DigitValue(c) == CHOOSE d \in 0..9 : DigitChars[d + 1] = c

IsDigit(c) == \E d \in 0..9 : DigitChars[d + 1] = c

RECURSIVE DigitsValue(_)
DigitsValue(s) ==
    IF s = <<>> THEN 0
    ELSE 10 * DigitsValue(SubSeq(s, 1, Len(s) - 1)) + DigitValue(s[Len(s)])

\* Python int(text): an optional sign and at least one digit; anything else
\* raises ValueError (ok = FALSE).
ParseInt(s) ==
    LET body == IF s # <<>> /\ Head(s) \in {"-", "+"} THEN Tail(s) ELSE s
        neg == s # <<>> /\ Head(s) = "-"
    IN  IF body = <<>> \/ \E i \in 1..Len(body) : ~IsDigit(body[i])
        THEN [ok |-> FALSE, val |-> 0]
        ELSE [ok |-> TRUE,
              val |-> IF neg THEN 0 - DigitsValue(body) ELSE DigitsValue(body)]

\* ------------------------------------------------------ content source
NonString == "<number>"

Items == {"a", "b"}

SeqsUpTo(S, n) == UNION {[1..k -> S] : k \in 0..n}

\* JSON arrays of strings, and arrays holding a number.
StringArrays == SeqsUpTo(Items, MaxLen)

MixedArrays == {<<NonString>>}

\* The states of tweets.json: no file, a file that cannot be read or decoded
\* as UTF-8, text that is not JSON, a JSON object/number/null, a JSON string,
\* a JSON array.
ContentFiles ==
    {[kind |-> k, items |-> <<>>] :
        k \in {"missing", "unreadable", "badjson", "scalar"}}
    \cup {[kind |-> "string", items |-> s] : s \in {<<>>, <<"a">>}}
    \cup {[kind |-> "array", items |-> s] : s \in StringArrays \cup MixedArrays}

EmptyList == [kind |-> "list", items |-> <<>>]

\* No process has been stopped yet.
NoList == [kind |-> "none", items |-> <<>>]

\* Python truthiness of a list or str.
Truthy(t) == Len(t.items) > 0

Min(a, b) == IF a < b THEN a ELSE b

\* load_tweets without its except clauses: a missing file raises too.
load_tweets_uncaught(file) ==
    IF file.kind = "array" /\ \A i \in 1..Len(file.items) : file.items[i] # NonString
    THEN [raised |-> FALSE, val |-> [kind |-> "list", items |-> file.items]]
    ELSE [raised |-> TRUE, val |-> EmptyList]

\* load_tweets: [raised, val].  FileNotFoundError and JSONDecodeError give
\* []; any other exception leaves the function: the open/decoding error of
\* an unreadable file, len() of a JSON number or null and tweets[:3] of a
\* JSON object (kind "scalar"), len(tweet) of a number among the first three
\* elements.  A JSON string is returned as it is.
load_tweets(file) ==
    CASE file.kind \in {"missing", "badjson"} ->
            [raised |-> FALSE, val |-> EmptyList]
      [] file.kind \in {"unreadable", "scalar"} ->
            [raised |-> TRUE, val |-> EmptyList]
      [] file.kind = "string" ->
            [raised |-> FALSE, val |-> [kind |-> "str", items |-> file.items]]
      [] OTHER ->
            IF \E i \in 1..Min(PreviewLen, Len(file.items)) :
                    file.items[i] = NonString
            THEN [raised |-> TRUE, val |-> EmptyList]
            ELSE [raised |-> FALSE,
                  val |-> [kind |-> "list", items |-> file.items]]

\* --------------------------------------------------------- cursor file
NoFile == [exists |-> FALSE, text |-> <<>>]

FileOf(s) == [exists |-> TRUE, text |-> s]

\* load_current_index that forgets the stored cursor.
load_current_index_fresh(tw, file) == 0

\* load_current_index without the range check of line 102.
load_current_index_unchecked(tw, file) ==
    IF ~file.exists THEN 0
    ELSE LET p == ParseInt(Strip(file.text))
         IN  IF p.ok THEN p.val ELSE 0

\* load_current_index: the stored integer when the list is non-empty and
\* index < len(list); 0 when the file is absent, int() raises, or the check
\* fails.
load_current_index(tw, file) ==
    IF ~file.exists THEN 0
    ELSE LET p == ParseInt(Strip(file.text))
         IN  IF ~p.ok THEN 0
             ELSE IF Truthy(tw) /\ p.val < Len(tw.items) THEN p.val
             ELSE 0

\* What a write of current_index.txt can do: succeed; fail in open() (the
\* file keeps its content); fail after open(..., 'w') has truncated it.
WriteOutcomes == {"ok", "openfails", "writefails"}

\* save_current_index that removes the file when its write fails.
save_current_index_unlink(index, file, w) ==
    IF w = "ok" THEN FileOf(StrOfInt(index)) ELSE NoFile

\* save_current_index that writes nothing.
save_current_index_noop(index, file, w) == file

\* save_current_index: the file after the call; the exception is swallowed.
save_current_index(index, file, w) ==
    CASE w = "ok" -> FileOf(StrOfInt(index))
      [] w = "openfails" -> file
      [] OTHER -> FileOf(<<>>)

\* ------------------------------------------------------------ errors
\* The exceptions a cycle can meet, by name, and str(e) as a sequence of
\* words: the provider's duplicate-status, rate-limit and network errors
\* (raised by the three submission methods), IndexError of
\* self.tweets[self.current_index] and TypeError of tweet + random_invisible.
ProviderErrors == {"dup", "rate", "net"}

ErrText(name) ==
    CASE name = "dup" -> <<"403", "Forbidden", "Status", "is", "a", "Duplicate">>
      [] name = "rate" -> <<"429", "Too", "Many", "Requests", "Rate", "limit", "exceeded">>
      [] name = "net" -> <<"Connection", "aborted">>
      [] name = "index" -> <<"list", "index", "out", "of", "range">>
      [] OTHER -> <<"unsupported", "operand", "type(s)", "for", "+">>

LowerWord(w) ==
    CASE w = "Forbidden" -> "forbidden"
      [] w = "Status" -> "status"
      [] w = "Duplicate" -> "duplicate"
      [] w = "Too" -> "too"
      [] w = "Many" -> "many"
      [] w = "Requests" -> "requests"
      [] w = "Rate" -> "rate"
      [] w = "Connection" -> "connection"
      [] OTHER -> w

\* str(e).lower()
Lower(text) == [i \in 1..Len(text) |-> LowerWord(text[i])]

\* phrase in text
Contains(text, phrase) ==
    \E i \in 1..(Len(text) - Len(phrase) + 1) :
        SubSeq(text, i, i + Len(phrase) - 1) = phrase

\* What the three transports answer when called in one cycle: method 1
\* returns a status or raises; methods 2 and 3 return a response (200 or not)
\* or raise.  err is the provider's condition in that cycle, the error every
\* failing call raises.  The answer of a method the cascade cannot reach is
\* fixed, since nothing observes it.
Oracles ==
    {o \in [err : ProviderErrors, m1 : {"ok", "raise"},
            m2 : {"200", "non200", "raise"}, m3 : {"200", "non200", "raise"}] :
        /\ o.m1 = "ok" => (o.err = "net" /\ o.m2 = "200")
        /\ o.m2 # "raise" => o.m3 = "200"}

\* What the log shows of an answer: the error's name when the call raised.
Answer(o, a) == IF a = "raise" THEN o.err ELSE a

\* ------------------------------------------------------------- events
\* One observable effect of an operation: a refresh ("reload", r = changed
\* or same), a call of save_current_index ("save", idx the value, r the
\* write's outcome), the selection of self.tweets[self.current_index]
\* ("select", idx the cursor), a call of submission method m ("submit", idx
\* the cursor, r the answer).
Ev(e, m, idx, r) == [e |-> e, m |-> m, idx |-> idx, r |-> r]

\* ----------------------------------------------------------- refresh
\* reload_tweets that replaces the list and keeps the cursor.
reload_tweets_keep(tw, cur, ifile, tfile, w) ==
    LET ld == load_tweets(tfile)
        old_tweets == IF Truthy(tw) THEN tw ELSE EmptyList
    IN  [raised |-> (Truthy(tw) /\ tw.kind = "str") \/ ld.raised,
         tweets |-> IF ld.raised THEN tw ELSE ld.val,
         cursor |-> cur, file |-> ifile,
         log |-> <<Ev("reload", 0, cur,
                      IF old_tweets # ld.val THEN "changed" ELSE "same")>>]

\* reload_tweets that resets and writes whether or not the list changed.
reload_tweets_reset(tw, cur, ifile, tfile, w) ==
    LET ld == load_tweets(tfile)
    IN  IF (Truthy(tw) /\ tw.kind = "str") \/ ld.raised
        THEN [raised |-> TRUE, tweets |-> tw, cursor |-> cur, file |-> ifile,
              log |-> <<>>]
        ELSE [raised |-> FALSE, tweets |-> ld.val, cursor |-> 0,
              file |-> save_current_index(0, ifile, w),
              log |-> <<Ev("reload", 0, cur, "changed"), Ev("save", 0, 0, w)>>]

\* reload_tweets, from the loaded list tw, the cursor cur, the cursor file
\* ifile and the content source tfile; w is the outcome of the write it may
\* make.  self.tweets.copy() raises AttributeError on a non-empty str.
reload_tweets(tw, cur, ifile, tfile, w) ==
    LET unchanged == [raised |-> TRUE, tweets |-> tw, cursor |-> cur,
                      file |-> ifile, log |-> <<>>]
        old_tweets == IF Truthy(tw) THEN tw ELSE EmptyList
        ld == load_tweets(tfile)
    IN  IF Truthy(tw) /\ tw.kind = "str" THEN unchanged
        ELSE IF ld.raised THEN unchanged
        ELSE IF old_tweets # ld.val
        THEN [raised |-> FALSE, tweets |-> ld.val, cursor |-> 0,
              file |-> save_current_index(0, ifile, w),
              log |-> <<Ev("reload", 0, cur, "changed"), Ev("save", 0, 0, w)>>]
        ELSE [raised |-> FALSE, tweets |-> ld.val, cursor |-> cur,
              file |-> ifile, log |-> <<Ev("reload", 0, cur, "same")>>]

\* ------------------------------------------------------------ publish
\* Python's seq[c]: c in -n..n-1, negative counting from the end.
InRange(t, c) == (0 - Len(t.items)) <= c /\ c < Len(t.items)

Subscript(t, c) ==
    IF c >= 0 THEN t.items[c + 1] ELSE t.items[Len(t.items) + c + 1]

\* The cascade of the three methods on oracle o at cursor c: [success, log].
\* Method 2 is called in method 1's except clause, method 3 in method 2's
\* except clause (not after a non-200 response of method 2).
submit(o, c) ==
    LET e1 == Ev("submit", 1, c, Answer(o, o.m1))
        e2 == Ev("submit", 2, c, Answer(o, o.m2))
        e3 == Ev("submit", 3, c, Answer(o, o.m3))
    IN  IF o.m1 = "ok" THEN [success |-> TRUE, log |-> <<e1>>]
        ELSE IF o.m2 # "raise"
        THEN [success |-> o.m2 = "200", log |-> <<e1, e2>>]
        ELSE [success |-> o.m3 = "200", log |-> <<e1, e2, e3>>]

\* An advance that stays where it is.
advance_stay(c, n) == c

\* An advance that skips an item.
advance_skip(c, n) == (c + 2) % n

\* The next cursor after a successful post.
advance(c, n) == (c + 1) % n

\* The cursor moves whether or not a method succeeded.
next_cursor_always(success, c, n) == advance(c, n)

\* Lines 199-205: the cursor moves only when a method succeeded.
next_cursor(success, c, n) == IF success THEN advance(c, n) ELSE c

\* An outer except clause that moves the cursor on every exception.
outer_except_advances(e, tw, c, ifile, w) ==
    LET next == advance(c, Len(tw.items))
    IN  [cursor |-> next, file |-> save_current_index(next, ifile, w),
         log |-> <<Ev("save", 0, next, w)>>, outcome |-> "error"]

\* The outer except clause for exception e raised at cursor c of list tw.
outer_except(e, tw, c, ifile, w) ==
    LET text == Lower(ErrText(e))
        dup == Contains(text, <<"duplicate">>)
        rl == Contains(text, <<"rate", "limit">>)
        next == IF dup THEN advance(c, Len(tw.items)) ELSE c
    IN  [cursor |-> next,
         file |-> IF dup THEN save_current_index(next, ifile, w) ELSE ifile,
         log |-> IF dup THEN <<Ev("save", 0, next, w)>> ELSE <<>>,
         outcome |-> IF dup THEN "duplicate"
                     ELSE IF rl THEN "ratelimit" ELSE "error"]

\* post_next_tweet on oracle o, with w1 and w2 the outcomes of the writes of
\* the refresh and of the advance: [raised, tweets, cursor, file, log,
\* outcome].  raised: the exception left post_next_tweet.
post_next_tweet(tw, cur, client, ifile, tfile, o, w1, w2) ==
    LET r == reload_tweets(tw, cur, ifile, tfile, w1)
        done(c, f, lg, out) ==
            [raised |-> FALSE, tweets |-> r.tweets, cursor |-> c, file |-> f,
             log |-> r.log \o lg, outcome |-> out]
        caught(e, lg) ==
            LET x == outer_except(e, r.tweets, r.cursor, r.file, w2)
            IN  done(x.cursor, x.file, lg \o x.log, x.outcome)
        sel == <<Ev("select", 0, r.cursor, "ok")>>
        s == submit(o, r.cursor)
        next == next_cursor(s.success, r.cursor, Len(r.tweets.items))
    IN  IF r.raised
        THEN [raised |-> TRUE, tweets |-> tw, cursor |-> cur, file |-> ifile,
              log |-> <<>>, outcome |-> "crashed"]
        ELSE IF ~Truthy(r.tweets) THEN done(r.cursor, r.file, <<>>, "empty")
        ELSE IF ~client THEN done(r.cursor, r.file, <<>>, "noapi")
        ELSE IF ~InRange(r.tweets, r.cursor) THEN caught("index", <<>>)
        ELSE IF Subscript(r.tweets, r.cursor) = NonString
        THEN caught("type", sel)
        ELSE IF s.success
        THEN done(next, save_current_index(next, r.file, w2),
                  sel \o s.log \o <<Ev("save", 0, next, w2)>>, "posted")
        ELSE done(next, r.file, sel \o s.log, "allfailed")

\* ------------------------------------------------------- the suffix
\* Line 147: invisible_chars, by code point.
InvisibleChars == <<"U+200B", "U+200C", "U+200D", "U+2060", "U+FEFF">>

\* Line 148: random.randint(1, 5).
RandLo == 1

RandHi == 5

\* What the random module hands to one cycle: n, the value of
\* random.randint(RandLo, RandHi), and choices, the positions in
\* invisible_chars that the n calls of random.choice pick.
Draws ==
    UNION {{[n |-> k, choices |-> c] : c \in [1..k -> 1..Len(InvisibleChars)]} :
             k \in RandLo..RandHi}

\* No draw at hand.
NoDraw == [n |-> 0, choices |-> <<>>]

\* A suffix one character short: range(n - 1).
random_invisible_short(d) ==
    [i \in 1..(d.n - 1) |-> InvisibleChars[d.choices[i]]]

\* Line 148: ''.join(random.choice(invisible_chars) for _ in range(n)).
random_invisible(d) == [i \in 1..d.n |-> InvisibleChars[d.choices[i]]]

\* Line 149: tweet + random_invisible, the text as the item followed by the
\* characters appended.
modified_tweet(tweet, d) == <<tweet>> \o random_invisible(d)

\* -------------------------------------------------------------- state
VARIABLES
    pc,             \* "off": no process; "init": TwitterBot() built, the
                    \* immediate post of main pending; "loop": in the loop
    api,            \* self.api is not None
    tweets,         \* self.tweets
    current_index,  \* self.current_index
    tweetsFile,     \* tweets.json
    indexFile,      \* current_index.txt
    log,            \* the events of the last cycle, in order
    outcome,        \* how the last operation ended
    lastPublished,  \* the list position last posted successfully, or -1
    nextRunIn,      \* hours until the job's next_run
    sinceSuccess,   \* hours since the last successful post (capped), or -1
    coolingDown,    \* a cycle was rate limited less than an hour ago
    rand,           \* what the random module hands to the next cycle
    sent,           \* the text handed to the provider by the last cycle
    prevList        \* the list the last process held when it was stopped

procVars == <<pc, api, tweets, current_index, indexFile, log, outcome>>

\* What only an observer keeps: the program holds none of it.
historyVars == <<lastPublished, sinceSuccess, coolingDown>>

\* The text of the submission, followed in SpecText only.
textVars == <<rand, sent>>

vars == <<pc, api, tweets, current_index, tweetsFile, indexFile, log, outcome,
          lastPublished, nextRunIn, sinceSuccess, coolingDown, rand, sent,
          prevList>>

\* The contents current_index.txt may have when the program first starts.
IndexFiles ==
    {NoFile} \cup
    {FileOf(s) : s \in {<<"x">>, <<"1", "\n">>, <<"7">>, <<"-", "1">>,
                        <<"-", "4">>}}

InitProc ==
    /\ pc = "off"
    /\ api = FALSE
    /\ tweets = EmptyList
    /\ current_index = 0
    /\ log = <<>>
    /\ outcome = "none"
    /\ lastPublished = -1
    /\ nextRunIn = 0
    /\ sinceSuccess = -1
    /\ coolingDown = FALSE
    /\ rand = NoDraw
    /\ sent = <<>>
    /\ prevList = NoList

Init ==
    /\ InitProc
    /\ tweetsFile \in ContentFiles
    /\ indexFile \in IndexFiles

\* ------------------------------------------------------------ helpers
Events(lg, e) == {i \in 1..Len(lg) : lg[i].e = e}

\* The list position of cursor c in a list of n elements.
Position(c, n) == IF c < 0 THEN n + c ELSE c

\* The cycle was rate limited: its last submission raised the rate-limit
\* error and no method succeeded.
RateLimited(lg, out) ==
    /\ out = "allfailed"
    /\ \E i \in Events(lg, "submit") :
          /\ lg[i].r = "rate"
          /\ \A j \in Events(lg, "submit") : j <= i

\* The process is gone: its memory with it.
Dead(out) ==
    /\ pc' = "off"
    /\ api' = FALSE
    /\ tweets' = EmptyList
    /\ current_index' = 0
    /\ log' = <<>>
    /\ outcome' = out
    /\ UNCHANGED <<tweetsFile, indexFile>>

\* ------------------------------------------------------------ actions
\* A TwitterBot.__init__ that starts from 0 whatever the cursor file holds.
Construct_reset(verified) ==
    /\ pc = "off"
    /\ LET ld == load_tweets(tweetsFile)
       IN  IF ld.raised THEN Dead("nostart")
           ELSE /\ pc' = "init"
                /\ api' = verified
                /\ tweets' = ld.val
                /\ current_index' = 0
                /\ log' = <<>>
                /\ outcome' = "startup"
                /\ UNCHANGED <<tweetsFile, indexFile>>

\* TwitterBot.__init__: the client is verified (verified) or self.api is
\* None; the list and the cursor are loaded.  An exception of load_tweets
\* ends the process.
Construct(verified) ==
    /\ pc = "off"
    /\ LET ld == load_tweets(tweetsFile)
       IN  IF ld.raised THEN Dead("nostart")
           ELSE /\ pc' = "init"
                /\ api' = verified
                /\ tweets' = ld.val
                /\ current_index' = load_current_index(ld.val, indexFile)
                /\ log' = <<>>
                /\ outcome' = "startup"
                /\ UNCHANGED <<tweetsFile, indexFile>>

\* One call of post_next_tweet, its writes drawn from W.  An exception that
\* leaves it ends the process: neither main's first call nor
\* schedule.run_pending() catches it.
Cycle(W) ==
    \E o \in Oracles, w1 \in W, w2 \in W :
        LET p == post_next_tweet(tweets, current_index, api, indexFile,
                                 tweetsFile, o, w1, w2)
        IN  IF p.raised THEN Dead("crashed")
            ELSE /\ pc' = "loop"
                 /\ tweets' = p.tweets
                 /\ current_index' = p.cursor
                 /\ indexFile' = p.file
                 /\ log' = p.log
                 /\ outcome' = p.outcome
                 /\ UNCHANGED <<api, tweetsFile>>

\* main, lines 227-230: build the bot and schedule the job.
Start ==
    /\ \E verified \in BOOLEAN : Construct(verified)
    /\ UNCHANGED <<nextRunIn, historyVars, textVars, prevList>>

\* main, line 234: the immediate post.
FirstPost ==
    /\ pc = "init"
    /\ Cycle({"ok"})
    /\ UNCHANGED <<nextRunIn, historyVars, textVars, prevList>>

\* main's loop: run_pending() runs the job (time abstracted: at any moment).
ScheduledPost ==
    /\ pc = "loop"
    /\ Cycle({"ok"})
    /\ UNCHANGED <<nextRunIn, historyVars, textVars, prevList>>

\* KeyboardInterrupt, or the process is killed between two cycles.
Stop ==
    /\ pc # "off"
    /\ Dead("stopped")
    /\ UNCHANGED <<nextRunIn, historyVars, textVars, prevList>>

\* The operator replaces, damages or deletes tweets.json.
EditContent ==
    /\ \E f \in ContentFiles \ {tweetsFile} : tweetsFile' = f
    /\ UNCHANGED procVars
    /\ UNCHANGED <<nextRunIn, historyVars, textVars, prevList>>

\* Writes of current_index.txt succeed; the time of day is abstracted.
Next == Start \/ FirstPost \/ ScheduledPost \/ Stop \/ EditContent

Spec == Init /\ [][Next]_vars

\* ------------------------------------------------- the scheduler's clock
\* The list position the cycle of log lg posted.
PostedPosition(lg, tw) ==
    LET i == CHOOSE i \in Events(lg, "select") : TRUE
    IN  Position(lg[i].idx, Len(tw.items))

\* What an observer notes of the cycle that just ran.
Observe ==
    /\ lastPublished' =
          IF outcome' = "posted" THEN PostedPosition(log', tweets')
          ELSE lastPublished
    /\ sinceSuccess' = IF outcome' = "posted" THEN 0 ELSE sinceSuccess
    /\ coolingDown' = (coolingDown \/ RateLimited(log', outcome'))

\* main, lines 227-230: schedule.every(8).hours sets next_run 8 hours ahead.
StartT ==
    /\ \E verified \in BOOLEAN : Construct(verified)
    /\ nextRunIn' = IF pc' = "init" THEN TweetInterval ELSE nextRunIn
    /\ UNCHANGED <<historyVars, textVars, prevList>>

\* main, line 234: the immediate post, whatever the time.
FirstPostT ==
    /\ pc = "init"
    /\ Cycle({"ok"})
    /\ Observe
    /\ UNCHANGED <<nextRunIn, textVars, prevList>>

\* schedule.run_pending(): the job runs once next_run is reached and is
\* scheduled 8 hours ahead again.
RunPending ==
    /\ pc = "loop"
    /\ nextRunIn = 0
    /\ Cycle({"ok"})
    /\ Observe
    /\ nextRunIn' = TweetInterval
    /\ UNCHANGED <<textVars, prevList>>

\* An hour passes.  The loop polls every second, so a due job runs before
\* the hour is over, and main posts at once after building the bot.
Tick ==
    /\ pc # "init"
    /\ pc = "loop" => nextRunIn > 0
    /\ nextRunIn' = IF pc = "loop" THEN nextRunIn - 1 ELSE nextRunIn
    /\ sinceSuccess' =
          IF sinceSuccess \in 0..(TweetInterval - 1) THEN sinceSuccess + 1
          ELSE sinceSuccess
    /\ coolingDown' = FALSE
    /\ UNCHANGED <<procVars, tweetsFile, lastPublished, textVars, prevList>>

\* The content source holds an array of strings and is left alone.
InitT ==
    /\ InitProc
    /\ tweetsFile \in {[kind |-> "array", items |-> s] : s \in StringArrays}
    /\ indexFile \in IndexFiles

NextT == StartT \/ FirstPostT \/ RunPending \/ Tick \/ Stop

SpecTimed == InitT /\ [][NextT]_vars

\* The same under the scheduling of main: the immediate post follows the
\* construction (line 234), the loop polls every second and runs a due job
\* (lines 245-248), and time passes.
SpecLive ==
    /\ InitT
    /\ [][NextT]_vars
    /\ WF_vars(FirstPostT)
    /\ WF_vars(RunPending)
    /\ WF_vars(Tick)

\* ------------------------------------------------------- a faulty disk
\* main, line 234, on a disk whose writes may fail.
FirstPostF ==
    /\ pc = "init"
    /\ Cycle(WriteOutcomes)
    /\ UNCHANGED <<nextRunIn, historyVars, textVars, prevList>>

\* main's loop on a disk whose writes may fail.
ScheduledPostF ==
    /\ pc = "loop"
    /\ Cycle(WriteOutcomes)
    /\ UNCHANGED <<nextRunIn, historyVars, textVars, prevList>>

\* The arrays tweets.json holds on the faulty disk.
FaultyArrays == {<<"a">>, <<"a", "b">>}

\* The operator replaces tweets.json by another array of strings.
ReplaceContent ==
    /\ \E s \in FaultyArrays \ {tweetsFile.items} :
          tweetsFile' = [kind |-> "array", items |-> s]
    /\ UNCHANGED procVars
    /\ UNCHANGED <<nextRunIn, historyVars, textVars, prevList>>

InitF ==
    /\ InitProc
    /\ tweetsFile \in {[kind |-> "array", items |-> s] : s \in FaultyArrays}
    /\ indexFile \in {NoFile, FileOf(<<"1", "\n">>)}

NextF == Start \/ FirstPostF \/ ScheduledPostF \/ Stop \/ ReplaceContent

\* Arrays of strings as content, every write of current_index.txt free to
\* fail.
SpecFaulty == InitF /\ [][NextF]_vars

\* ------------------------------------------------- the submitted text
\* The provider is done with the text of the last cycle.
Delivered ==
    /\ sent # <<>>
    /\ sent' = <<>>
    /\ UNCHANGED <<procVars, tweetsFile, nextRunIn, historyVars, rand, prevList>>

\* The random module produces what the next cycle will draw.
Seed ==
    /\ pc # "off"
    /\ rand = NoDraw
    /\ sent = <<>>
    /\ rand' \in Draws
    /\ UNCHANGED <<procVars, tweetsFile, nextRunIn, historyVars, sent, prevList>>

\* Lines 144-149 of the cycle that just ran: a cycle that selected an item
\* drew its suffix; a cycle that submitted handed over modified_tweet.
Handed ==
    /\ rand' = IF Events(log', "select") # {} THEN NoDraw ELSE rand
    /\ sent' =
          IF Events(log', "submit") # {}
          THEN LET i == CHOOSE i \in Events(log', "select") : TRUE
               IN  modified_tweet(Subscript(tweets', log'[i].idx), rand)
          ELSE <<>>

\* The provider accepts a call or fails it with a network error.
PlainAnswers(lg) == \A i \in Events(lg, "submit") : lg[i].r \in {"ok", "net"}

\* main, line 234, the text followed.
FirstPostX ==
    /\ pc = "init"
    /\ rand # NoDraw
    /\ Cycle({"ok"})
    /\ PlainAnswers(log')
    /\ Handed
    /\ UNCHANGED <<nextRunIn, historyVars, prevList>>

\* main's loop, the text followed.
ScheduledPostX ==
    /\ pc = "loop"
    /\ rand # NoDraw
    /\ Cycle({"ok"})
    /\ PlainAnswers(log')
    /\ Handed
    /\ UNCHANGED <<nextRunIn, historyVars, prevList>>

\* tweets.json holds two strings, or a number; no cursor file yet.
InitX ==
    /\ InitProc
    /\ tweetsFile \in {[kind |-> "array", items |-> s] :
                         s \in {<<"a", "b">>, <<NonString>>}}
    /\ indexFile = NoFile

NextX ==
    Start \/ Seed \/ FirstPostX \/ ScheduledPostX \/ Delivered \/ Stop

SpecText == InitX /\ [][NextX]_vars

\* ------------------------------------------------ restarts and edits
\* KeyboardInterrupt or a kill between two cycles, the list held noted.
StopR ==
    /\ pc # "off"
    /\ Dead("stopped")
    /\ prevList' = tweets
    /\ UNCHANGED <<nextRunIn, historyVars, textVars>>

\* The operator replaces tweets.json by another array of strings while no
\* process runs.
EditOffline ==
    /\ pc = "off"
    /\ \E s \in StringArrays \ {tweetsFile.items} :
          tweetsFile' = [kind |-> "array", items |-> s]
    /\ UNCHANGED procVars
    /\ UNCHANGED <<nextRunIn, historyVars, textVars, prevList>>

NextR == Start \/ FirstPost \/ ScheduledPost \/ StopR \/ EditOffline

\* Arrays of strings as content, edited only between two processes.
SpecRestart == InitT /\ [][NextR]_vars

\* ------------------------------------------------------------- claims
Submits(lg) == Events(lg, "submit")

Saves(lg) == Events(lg, "save")

\* The refresh of the cycle of log lg found the content changed.
Changed(lg) == \E i \in Events(lg, "reload") : lg[i].r = "changed"

\* A step of Spec or SpecFaulty in which a cycle ran to its end: Start
\* begins without a process, Stop and an escaping exception end without
\* one, and an edit changes tweets.json.
CompletedCycle == pc # "off" /\ pc' = "loop" /\ tweetsFile' = tweetsFile

\* Every such step of Spec is a cycle of the process, and so is every such
\* step of SpecFaulty.
CompletedCycleIsCycle ==
    [][CompletedCycle =>
          (FirstPost \/ ScheduledPost \/ FirstPostF \/ ScheduledPostF)]_vars

HoldOutcomes == {"allfailed", "ratelimit", "error"}

RECURSIVE AdvanceTimes(_, _, _)
\* The cursor after k advances from c in a list of n items.
AdvanceTimes(c, n, k) ==
    IF k = 0 THEN c ELSE AdvanceTimes(advance(c, n), n, k - 1)

\* C1 (checked under SpecTimed: the list is not edited, writes succeed).
\* Successful posts follow the list cyclically, across failed cycles and
\* restarts: a cycle that posts, posts the position after the one posted
\* last; and a process built after a post starts with its cursor at that
\* next position.  So no position is posted twice before all the others.
ResumeAtNext ==
    (pc = "init" /\ lastPublished # -1)
        => current_index = (lastPublished + 1) % Len(tweets.items)

RotationOrder ==
    /\ []ResumeAtNext
    /\ [][(outcome' = "posted" /\ lastPublished # -1
              /\ (FirstPostT \/ RunPending))
            => lastPublished' = (lastPublished + 1) % Len(tweets'.items)]_vars

\* C1 witness: the last position of a list of at least two items was posted,
\* the process was restarted, and the cursor it loaded is 0.
RotationOrderWitness ==
    /\ pc = "init"
    /\ Len(tweets.items) >= 2
    /\ lastPublished = Len(tweets.items) - 1
    /\ current_index = 0
    /\ indexFile = FileOf(<<"0">>)

\* C2: from the valid cursor c of a list of n > 0 items, n advances visit
\* every index 0..n-1 once and come back to c, the advance from n-1 is 0,
\* and the cursor after a successful post is the advance of the one posted.
AdvanceVisitsAll ==
    LET n == Len(tweets.items)
        c == current_index
    IN  (pc # "off" /\ n > 0 /\ c \in 0..(n - 1)) =>
            /\ AdvanceTimes(c, n, n) = c
            /\ {AdvanceTimes(c, n, k) : k \in 0..(n - 1)} = 0..(n - 1)
            /\ \A k \in 1..(n - 1) : AdvanceTimes(c, n, k) # c
            /\ advance(n - 1, n) = 0
            /\ outcome = "posted" =>
                  \A i \in Submits(log) :
                      c = (Position(log[i].idx, n) + 1) % n

\* C2 witness: the last item of a list of at least two was posted and the
\* cursor wrapped to 0.
AdvanceWitness ==
    /\ outcome = "posted"
    /\ Len(tweets.items) >= 2
    /\ current_index = 0
    /\ \E i \in Submits(log) : log[i].idx = Len(tweets.items) - 1

\* C3: the cursor of a running process is an index of the list, and 0 when
\* the list is empty.
CursorInRange ==
    pc # "off" =>
        IF Truthy(tweets) THEN current_index \in 0..(Len(tweets.items) - 1)
        ELSE current_index = 0

\* C4: a cycle whose refresh found the content changed has set the cursor
\* to 0 and written 0 to the cursor file first, before any selection or
\* submission; what it selects and submits is index 0, and unless it then
\* posts, cursor and file are 0 when it ends.
ChangeResetsFirst ==
    Changed(log) =>
        /\ log[1].e = "reload"
        /\ Len(log) >= 2 /\ log[2] = Ev("save", 0, 0, "ok")
        /\ \A j \in Events(log, "select") \cup Submits(log) :
              j > 2 /\ log[j].idx = 0
        /\ outcome # "posted" =>
              (current_index = 0 /\ indexFile = FileOf(<<"0">>))
        /\ outcome \in {"posted", "allfailed"} =>
              \E j \in Events(log, "select") : TRUE

\* C4 witness: the list changed while the cursor was 1 (scenario C), and the
\* cycle went on to submit.
ChangeResetsWitness ==
    /\ Changed(log)
    /\ log[1].idx = 1
    /\ Submits(log) # {}
    /\ outcome = "allfailed"

\* C5: when a submission of the last cycle failed with an error whose text
\* contains "duplicate", the cycle advanced the cursor past the item it
\* tried and stored it.
DuplicateAdvances ==
    \A i \in Submits(log) :
        (/\ log[i].r \in ProviderErrors
         /\ Contains(Lower(ErrText(log[i].r)), <<"duplicate">>)) =>
            /\ current_index = (log[i].idx + 1) % Len(tweets.items)
            /\ indexFile = FileOf(StrOfInt(current_index))

\* C6: a cycle that ends with all methods failed (rate limited or any other
\* error) leaves cursor and cursor file as its refresh left them (untouched
\* when the content is unchanged, 0 after a change); and the next cycle
\* that submits, the content unchanged, submits the same index.
HoldOnFailure ==
    [][(outcome' \in HoldOutcomes /\ tweetsFile' = tweetsFile
            /\ (FirstPost \/ ScheduledPost)) =>
          /\ IF Changed(log')
             THEN current_index' = 0 /\ indexFile' = FileOf(<<"0">>)
             ELSE current_index' = current_index /\ indexFile' = indexFile
          /\ (outcome \in HoldOutcomes /\ pc = "loop" /\ ~Changed(log')) =>
                \A i \in Submits(log), j \in Submits(log') :
                    log'[j].idx = log[i].idx]_vars

\* C6 witness: a rate-limited cycle at cursor 1, the cursor still 1 and
\* still stored.
HoldWitness ==
    /\ RateLimited(log, outcome)
    /\ current_index = 1
    /\ indexFile = FileOf(<<"1">>)
    /\ ~Changed(log)

\* C7 (SpecTimed): a cycle that fires less than 60 minutes after a
\* rate-limited cycle submits nothing.
CooldownHolds ==
    [][(coolingDown /\ (FirstPostT \/ RunPending)) => Submits(log') = {}]_vars

\* C8 (SpecTimed): a cycle that fires when less than 90% of the interval has
\* passed since the last successful post submits nothing.
SpacingHolds ==
    [][(sinceSuccess # -1 /\ 10 * sinceSuccess < 9 * TweetInterval
            /\ (FirstPostT \/ RunPending))
          => Submits(log') = {}]_vars

NoCycleRaises == outcome # "crashed"

\* Without a client (self.api is None) no cycle of the process submits.
NoClientNoSubmit == (pc # "off" /\ ~api) => Submits(log) = {}

\* C11: when the client cannot be built or verified, startup still completes
\* (the process reaches main's immediate post), and every cycle after it
\* submits through no method and leaves the process in its loop.
AuthFailureKeepsRunning ==
    [][/\ Construct(FALSE) => pc' = "init"
       /\ (~api /\ pc # "off" /\ (FirstPost \/ ScheduledPost)) =>
             (pc' = "loop" /\ outcome' \in {"noapi", "empty"}
                /\ Submits(log') = {})]_vars

\* What int() makes of the cursor file's text: [ok, val].
StoredInt(file) == ParseInt(Strip(file.text))

\* C12 as stated: the cursor loaded at startup is 0 when the file is absent,
\* its content is no integer, or the stored integer is >= the length of the
\* loaded list; otherwise it is the stored integer.
LoadCursorAsStated ==
    pc = "init" =>
        current_index =
            IF \/ ~indexFile.exists
               \/ ~StoredInt(indexFile).ok
               \/ StoredInt(indexFile).val >= Len(tweets.items)
            THEN 0
            ELSE StoredInt(indexFile).val

\* C12 as amended: the cursor loaded at startup is 0 when the file is
\* absent, its content is no integer, the loaded list is empty, or the
\* stored integer is >= the length of the loaded list; otherwise it is the
\* stored integer.
LoadCursorOrZero ==
    pc = "init" =>
        current_index =
            IF \/ ~indexFile.exists
               \/ ~StoredInt(indexFile).ok
               \/ Len(tweets.items) = 0
               \/ StoredInt(indexFile).val >= Len(tweets.items)
            THEN 0
            ELSE StoredInt(indexFile).val

\* C12 witness: startup found a stored 7 with a non-empty list and loaded 0.
LoadCursorWitness ==
    /\ pc = "init"
    /\ indexFile = FileOf(<<"7">>)
    /\ Truthy(tweets)
    /\ current_index = 0

\* C13: a cycle whose refresh loads a list equal to the list loaded before
\* leaves the cursor to the rest of the cycle as it found it and writes
\* nothing: the item selected is the one at the old cursor, the only write
\* of the cycle is the one of an advance, and a cycle without advance leaves
\* cursor and cursor file untouched.  Holding at every cycle, it holds for
\* any number of consecutive refreshes.
RefreshIdempotent ==
    [][(tweets.kind = "list" /\ tweets' = tweets /\ CompletedCycle) =>
          /\ log'[1] = Ev("reload", 0, current_index, "same")
          /\ \A i \in Events(log', "select") : log'[i].idx = current_index
          /\ \A i \in Saves(log') : i = Len(log') /\ outcome' = "posted"
          /\ outcome' # "posted" =>
                (current_index' = current_index /\ indexFile' = indexFile)]_vars

\* C13 witness: a cycle refreshed an unchanged list of two and failed: the
\* cursor is still 1 and the cursor file still the text found at startup.
RefreshIdempotentWitness ==
    /\ pc = "loop"
    /\ outcome = "allfailed"
    /\ log[1] = Ev("reload", 0, 1, "same")
    /\ current_index = 1
    /\ indexFile = FileOf(<<"1", "\n">>)

\* C14 as stated: between cycles (after startup and after every cycle), the
\* writes succeeding, the integer stored in the cursor file equals the
\* cursor in memory, an absent file counting as 0.  (A file holding no
\* integer is left out of the statement.)
StoredEqualsCursor ==
    (pc # "off" /\ (indexFile.exists => StoredInt(indexFile).ok)) =>
        current_index =
            IF indexFile.exists THEN StoredInt(indexFile).val ELSE 0

\* C14 as amended: between cycles, the writes succeeding, the cursor that
\* load_current_index reads back from the cursor file for the loaded list
\* equals the cursor in memory; and after a cycle that wrote the file, the
\* file holds exactly the cursor in memory.
StoredResumesCursor ==
    pc # "off" =>
        /\ current_index =
              IF \/ ~indexFile.exists
                 \/ ~StoredInt(indexFile).ok
                 \/ Len(tweets.items) = 0
                 \/ StoredInt(indexFile).val >= Len(tweets.items)
              THEN 0
              ELSE StoredInt(indexFile).val
        /\ Saves(log) # {} => indexFile = FileOf(StrOfInt(current_index))

\* C14 witness: a cycle posted item 0 of two and the file holds the new
\* cursor 1.
StoredCursorWitness ==
    /\ pc = "loop"
    /\ outcome = "posted"
    /\ log[Len(log)] = Ev("save", 0, 1, "ok")
    /\ current_index = 1
    /\ indexFile = FileOf(<<"1">>)

\* The last write of the cycle of log lg.
LastSave(lg) == lg[CHOOSE i \in Saves(lg) : \A j \in Saves(lg) : j <= i]

\* The cursor file as the writes before the last one of the cycle of log lg
\* left it, f being the file before the cycle: a cycle writes at most twice,
\* the first time 0 for a reset.
BeforeLastSave(lg, f) ==
    IF Cardinality(Saves(lg)) < 2 THEN f
    ELSE LET first == lg[CHOOSE i \in Saves(lg) : \A j \in Saves(lg) : i <= j]
         IN  CASE first.r = "ok" -> FileOf(<<"0">>)
               [] first.r = "openfails" -> f
               [] OTHER -> FileOf(<<>>)

\* C15 as stated (SpecFaulty): a cycle in which a write of the cursor file
\* fails ends normally and leaves the process in its loop, the cursor in
\* memory holds the value the last write carried, and when that last write
\* failed the file still holds the older persisted value.
SaveFailureKeepsOlder ==
    [][((\E i \in Saves(log') : log'[i].r # "ok") /\ CompletedCycle) =>
          /\ pc' = "loop"
          /\ current_index' = LastSave(log').idx
          /\ IF LastSave(log').r = "ok"
             THEN indexFile' = FileOf(StrOfInt(current_index'))
             ELSE indexFile' = BeforeLastSave(log', indexFile)]_vars

\* C15 as amended (SpecFaulty): such a cycle ends normally and leaves the
\* process in its loop, the cursor in memory holds the value the last write
\* carried, and when that last write failed the file holds the older
\* persisted value or is empty (read as 0 by a restart).
SaveFailureSwallowed ==
    [][((\E i \in Saves(log') : log'[i].r # "ok") /\ CompletedCycle) =>
          /\ pc' = "loop"
          /\ current_index' = LastSave(log').idx
          /\ IF LastSave(log').r = "ok"
             THEN indexFile' = FileOf(StrOfInt(current_index'))
             ELSE indexFile' \in {BeforeLastSave(log', indexFile),
                                  FileOf(<<>>)}]_vars

\* C15 witness: a cycle posted item 0 of two, the write of the new cursor 1
\* failed after truncating the file: the cursor in memory is 1.
SaveFailureWitness ==
    /\ pc = "loop"
    /\ outcome = "posted"
    /\ LastSave(log) = Ev("save", 0, 1, "writefails")
    /\ current_index = 1
    /\ indexFile = FileOf(<<>>)

\* The five zero-width code points.
ZeroWidth == {"U+200B", "U+200C", "U+200D", "U+2060", "U+FEFF"}

\* C16 (SpecText): the text a submitting cycle hands over is the item at the
\* cursor its refresh left (the old cursor, or 0 after a change), unaltered,
\* followed by 1 to 5 characters, each one of the five zero-width code
\* points; every method of the cycle is called at that cursor; and the
\* suffix is the one drawn for this cycle, the draw being used up by it.
TextIsItemPlusSuffix ==
    [][(rand # NoDraw /\ Submits(log') # {}) =>
          LET c == IF Changed(log') THEN 0 ELSE current_index
              suffix == Tail(sent')
          IN  /\ sent' # <<>>
              /\ Head(sent') = Subscript(tweets', c)
              /\ \A i \in Submits(log') : log'[i].idx = c
              /\ Len(suffix) >= 1 /\ Len(suffix) <= 5
              /\ \A k \in 1..Len(suffix) : suffix[k] \in ZeroWidth
              /\ Len(suffix) = rand.n
              /\ \A k \in 1..Len(suffix) :
                    suffix[k] = InvisibleChars[rand.choices[k]]
              /\ rand' = NoDraw]_vars

\* C16 witness: a cycle whose methods all failed had handed over item "b"
\* with a suffix of five characters, not all the same.
TextWitness ==
    /\ outcome = "allfailed"
    /\ Len(sent) = 6
    /\ sent[1] = "b"
    /\ sent[2] = "U+200B"
    /\ sent[6] = "U+FEFF"

\* The answer r of a method counts as a success.
Accepted(r) == r \in {"ok", "200"}

\* The methods of a cycle are called in the order 1, 2, 3, a later one only
\* after every earlier one failed, and at most one of them succeeds.
FallbackOrdered ==
    /\ \A i \in Submits(log) :
          log[i].m = Cardinality({j \in Submits(log) : j <= i})
    /\ \A i \in Submits(log), j \in Submits(log) :
          j < i => ~Accepted(log[j].r)
    /\ Cardinality({i \in Submits(log) : Accepted(log[i].r)}) <= 1

\* C17: the methods of a cycle are called in the order 1, 2, 3, a later one
\* only after every earlier one failed, at most one succeeds; and a cycle
\* that ends with "all methods failed" has called all three.
FallbackComplete ==
    /\ FallbackOrdered
    /\ outcome = "allfailed" => {log[i].m : i \in Submits(log)} = {1, 2, 3}

\* C18: within one cycle the cursor changes in two ways only.  The refresh
\* sets it to 0 exactly when the list loaded differs from the list held;
\* from there it moves at most once, by one position modulo the length of
\* the list, and only in a cycle with an accepted submission at that cursor
\* (or an exception classified as duplicate).  A cycle that returns early
\* or whose submissions fail leaves it where the refresh left it.
CursorMovesTwoWays ==
    [][CompletedCycle =>
          LET old == IF Truthy(tweets) THEN tweets ELSE EmptyList
              c == IF tweets' # old THEN 0 ELSE current_index
              n == Len(tweets'.items)
              moved == current_index' # c
          IN  /\ Changed(log') <=> tweets' # old
              /\ current_index' \in
                    (IF n = 0 THEN {c} ELSE {c, (c + 1) % n})
              /\ moved => outcome' \in {"posted", "duplicate"}
              /\ outcome' = "posted" =>
                    \E i \in Submits(log') :
                        Accepted(log'[i].r) /\ log'[i].idx = c
              /\ outcome' \in {"empty", "noapi"} \cup HoldOutcomes =>
                    ~moved
              /\ Cardinality(Saves(log')) <=
                    (IF tweets' # old THEN 1 ELSE 0)
                        + (IF outcome' \in {"posted", "duplicate"}
                           THEN 1 ELSE 0)]_vars

\* C18 witness: one cycle found the list changed while the cursor was 1,
\* reset it to 0, posted item 0 and advanced to 1.
CursorMovesWitness ==
    /\ pc = "loop"
    /\ outcome = "posted"
    /\ log[1] = Ev("reload", 0, 1, "changed")
    /\ \E i \in Submits(log) : Accepted(log[i].r) /\ log[i].idx = 0
    /\ current_index = 1

\* C19 (SpecRestart): a process started after the list was edited offline
\* (the list it loads differs from the list the stopped process held) takes
\* the stored cursor whenever that is an index of the new list, without a
\* reset to 0; and its first cycle finds the content unchanged and, with a
\* client and a non-empty list, submits the item at that cursor.
RestartKeepsCursor ==
    [][/\ (pc = "off" /\ pc' = "init" /\ prevList \notin {NoList, tweets'}
             /\ indexFile.exists /\ StoredInt(indexFile).ok
             /\ StoredInt(indexFile).val >= 0
             /\ StoredInt(indexFile).val < Len(tweets'.items)) =>
             current_index' = StoredInt(indexFile).val
       /\ (pc = "init" /\ pc' = "loop" /\ prevList \notin {NoList, tweets}) =>
             /\ log'[1] = Ev("reload", 0, current_index, "same")
             /\ \A i \in Submits(log') : log'[i].idx = current_index
             /\ (api /\ Truthy(tweets) /\ current_index >= 0) =>
                   Submits(log') # {}]_vars

\* C19 witness: the stopped process held <<a, b>> with 1 stored; the list
\* was replaced by <<b, a>>; the new process took cursor 1 and its first
\* cycle submitted item 1.
RestartWitness ==
    /\ pc = "loop"
    /\ prevList = [kind |-> "list", items |-> <<"a", "b">>]
    /\ tweets = [kind |-> "list", items |-> <<"b", "a">>]
    /\ log[1] = Ev("reload", 0, 1, "same")
    /\ \E i \in Submits(log) : log[i].idx = 1
    /\ outcome = "allfailed"
    /\ indexFile = FileOf(<<"1">>)

\* A cycle of the timed process that posted.
PostedCycle == outcome' = "posted" /\ (FirstPostT \/ RunPending)

\* C20 (SpecLive: a non-empty or empty array of strings left unedited,
\* cycles firing forever).  If cycles post successfully infinitely often,
\* every position of the list is posted infinitely often; and a cycle whose
\* methods all fail with an error other than the duplicate one leaves the
\* cursor where it was, submits only the item at the cursor, and so does the
\* cycle after it.
ProgressThroughList ==
    /\ []<><<PostedCycle>>_vars =>
          \A p \in 0..(MaxLen - 1) :
              []<>(p >= Len(tweetsFile.items)
                     \/ (outcome = "posted" /\ lastPublished = p))
    /\ [][(outcome' = "allfailed"
             /\ (\A i \in Submits(log') : log'[i].r # "dup")
             /\ (FirstPostT \/ RunPending)) =>
             /\ current_index' = current_index
             /\ \A i \in Submits(log') : log'[i].idx = current_index
             /\ (pc = "loop" /\ outcome = "allfailed") =>
                   \A i \in Submits(log), j \in Submits(log') :
                       log'[j].idx = log[i].idx]_vars

\* C20 witness: a scheduled cycle posted the last position of a list of two
\* and the cursor wrapped to 0.
ProgressWitness ==
    /\ Len(tweets.items) = 2
    /\ outcome = "posted"
    /\ lastPublished = 1
    /\ current_index = 0
    /\ nextRunIn = TweetInterval
    /\ pc = "loop"

====
